---- MODULE Spec2Model ----
(***************************************************************************)
(* Playback orchestration of the Audalithic radio player                   *)
(* (src/src/contexts/RadioContext.tsx).                                    *)
(*                                                                         *)
(* The React provider is modelled as a state machine.  `st` holds the      *)
(* useState cells of the latest committed render, `ls` the localStorage    *)
(* keys, `handles` every Howl instance created so far, `timers` the        *)
(* pending setTimeout callbacks and `fetches` the /api/songs requests in   *)
(* flight.  A callback registered on a Howl or handed to setTimeout keeps  *)
(* the variables of the render that created it: that closure is the `env`  *)
(* record stored with the handle or the timer, and the handlers read from  *)
(* it exactly where the source reads a render-scope variable, while the    *)
(* functional updates (setX(prev => ...)) read the live state.             *)
(***************************************************************************)
EXTENDS Integers, Sequences, FiniteSets, TLC

\* ---------------------------------------------------------------- bounds
MaxHandles == 4
MaxHandlesNav == 3
MaxHandlesLong == 13
MaxHandlesHist == 5
MaxHandlesCold == 4
MaxClicksNav == 2
MaxClicksHist == 4
MaxClicksLang == 3
MaxFetchErrors == 1
MaxLoadErrors == 1
MaxUserActions == 3

\* ------------------------------------------------------ program constants
DayInMs == 24 * 60 * 60 * 1000

None == "none"
NoHandle == 0

\* The instant of the cold start (Date.now() in the load effect).
Now == 3 * DayInMs

\* ------------------------------------------------------------- the server
\* manifest.json of the music server: language -> titles.
ManifestLanguages == <<"en", "tr">>

ManifestTitles(language) ==
  IF language = "en" THEN <<"a", "b">>
  ELSE IF language = "tr" THEN <<"c">>
  ELSE <<>>

\* Song.language of a song id; "x" is a song of an earlier manifest that the
\* server no longer lists.
LanguageOf(song) == IF song \in {"a", "b", "x"} THEN "en" ELSE "tr"

\* Howl.duration() of a loaded song, in seconds.
DurationOf(song) == 3

\* ----------------------------------------------------------------- arrays
Elems(s) == {s[i] : i \in 1..Len(s)}

Includes(s, x) == \E i \in 1..Len(s) : s[i] = x

RECURSIVE Without(_, _)
\* Array.prototype.filter(e => e !== x)
Without(s, x) ==
  IF s = <<>> THEN <<>>
  ELSE IF Head(s) = x THEN Without(Tail(s), x)
       ELSE <<Head(s)>> \o Without(Tail(s), x)

RECURSIVE NotIn(_, _)
\* Array.prototype.filter(e => !xs.includes(e))
NotIn(s, xs) ==
  IF s = <<>> THEN <<>>
  ELSE IF Includes(xs, Head(s)) THEN NotIn(Tail(s), xs)
       ELSE <<Head(s)>> \o NotIn(Tail(s), xs)

\* slice(0, prev.length) in place of slice(0, -1): nothing is dropped.
SliceDropLast_KeepsAll(s) == SubSeq(s, 1, Len(s))

\* Array.prototype.slice(0, -1)
SliceDropLast(s) == IF Len(s) = 0 THEN <<>> ELSE SubSeq(s, 1, Len(s) - 1)

Min(a, b) == IF a < b THEN a ELSE b

RECURSIVE getSongsByLanguages(_)
\* The songs of the requested languages, in request order; a language the
\* manifest does not list contributes nothing.
getSongsByLanguages(languages) ==
  IF languages = <<>> THEN <<>>
  ELSE ManifestTitles(Head(languages)) \o getSongsByLanguages(Tail(languages))

VARIABLES
  st,        \* the useState cells of the latest committed render
  ls,        \* localStorage
  handles,   \* every Howl created so far, by creation order
  timers,    \* pending setTimeout callbacks
  fetches,   \* /api/songs requests in flight
  mounted,   \* the mount effects have run
  langFetch, \* /api/languages request in flight
  toast,     \* the notice raised by the last step
  run,       \* this run: its bounds, its draws, the snapshot it started from
  errors,    \* Howl load errors so far
  fetchErrors, \* failed /api/songs responses so far
  clicks,    \* user actions so far
  ignored,   \* of these, the clicks debounceButton returned from at once
  api,       \* the last request to the API routes, with its response
  plays      \* the songs playNextSong has started, in order

vars ==
  <<st, ls, handles, timers, fetches, mounted, langFetch, toast, run, errors,
    fetchErrors, clicks, ignored, api, plays>>

\* ------------------------------------------------------------ React state
\* useState initial values.  pnsSound is the `sound` of the render in which
\* the memoised preloadNextSong was last re-created (its dependency list
\* leaves out sound and playNextSong).  volume is in tenths (0.7 is 7).
InitialState ==
  [ selectedLanguages |-> <<>>,
    songs |-> <<>>,
    availableSongs |-> <<>>,
    playedSongs |-> <<>>,
    previousSongs |-> <<>>,
    currentSong |-> None,
    sound |-> NoHandle,
    nextSound |-> NoHandle,
    isPlaying |-> FALSE,
    loading |-> TRUE,
    isButtonDisabled |-> FALSE,
    shouldRestoreAudio |-> FALSE,
    currentTime |-> 0,
    volume |-> 7,
    pnsSound |-> NoHandle ]

\* The render-scope variables a callback created in render s closes over.
EnvOf(s) ==
  [ songs |-> s.songs,
    sound |-> s.sound,
    playedSongs |-> s.playedSongs,
    currentSong |-> s.currentSong,
    availableSongs |-> s.availableSongs,
    nextSound |-> s.nextSound,
    pnsSound |-> s.pnsSound ]

\* The closure slot of a timer whose callback reads no render variable.
NoEnv == EnvOf(InitialState)

\* The closure of the memoised preloadNextSong of a render with closure E:
\* the same arrays, and the sound of the render that last re-created it.
PnsEnv(E) == [E EXCEPT !.sound = E.pnsSound]

\* The world a handler transforms: the variables, the names of the array
\* cells it has set (a fresh array is a changed dependency even when equal),
\* and the lists the two preload effects drew a random song from.
World ==
  [ st |-> st, ls |-> ls, hs |-> handles, tm |-> timers, fq |-> fetches,
    toast |-> None, fresh |-> {}, rnd1 |-> <<>>, rnd2 |-> <<>>, plays |-> plays ]

SetVal(w, f, v) == [w EXCEPT !.st[f] = v]

SetArr(w, f, v) == [w EXCEPT !.st[f] = v, !.fresh = @ \cup {f}]

Notify(w, t) == [w EXCEPT !.toast = t]

AddTimer(w, t) == [w EXCEPT !.tm = @ \cup {t}]

\* localStorage: currentSong and wasPlaying are "none" when the key is absent,
\* audioPosition and audioPositionTimestamp are 0 when absent (only positive
\* values are ever stored); saved tells whether the three preference keys
\* (selectedLanguages, volume, playedSongs) exist.
\* localStorage.removeItem of the four current-song keys.
ClearSavedSong(w) ==
  [w EXCEPT !.ls.currentSong = None, !.ls.wasPlaying = None,
            !.ls.audioPosition = 0, !.ls.audioPositionTimestamp = 0]

\* isPlaying.toString()
BoolToString(b) == IF b THEN "true" ELSE "false"

\* volume.toString() of a volume in tenths, as its characters: 0 is "0",
\* 10 is "1", 3 is "0.3".
VolumeToString(v) ==
  IF v % 10 = 0 THEN <<v \div 10>> ELSE <<v \div 10, ".", v % 10>>

\* parseFloat of such a string, in tenths.
parseFloat(str) ==
  IF Len(str) = 3 /\ str[2] = "." THEN str[1] * 10 + str[3] ELSE str[1] * 10

saveCurrentSongState(w, song, isPlaying) ==
  IF song # None
  THEN [w EXCEPT !.ls.currentSong = song, !.ls.wasPlaying = BoolToString(isPlaying)]
  ELSE ClearSavedSong(w)

\* ------------------------------------------------------------------ Howl
\* new Howl({src: [song.path], html5: true, ...}): the handle starts loading.
NewHowl(w, song, kind, E, savedPosition, wasPlaying) ==
  [w EXCEPT !.hs = Append(@,
     [ track |-> song, kind |-> kind, state |-> "loading",
       playing |-> FALSE, playQueued |-> FALSE, playEvent |-> FALSE,
       endOn |-> TRUE, listeners |-> TRUE, promoted |-> FALSE,
       env |-> E, savedPosition |-> savedPosition, wasPlaying |-> wasPlaying,
       pos |-> 0 ])]

\* sound.stop(); sound.unload().  An unloaded handle emits nothing more, so
\* its listeners and their closure are dropped with it.
StopUnload(w, h) ==
  [w EXCEPT !.hs[h].state = "unloaded", !.hs[h].playing = FALSE,
            !.hs[h].playQueued = FALSE, !.hs[h].playEvent = FALSE,
            !.hs[h].endOn = FALSE, !.hs[h].listeners = FALSE,
            !.hs[h].promoted = FALSE, !.hs[h].env = NoEnv, !.hs[h].pos = 0]

\* sound.play(): a loaded handle starts and will emit 'play'; a loading one
\* queues the play until it has loaded; a failed or unloaded one stays silent.
HowlPlay(w, h) ==
  IF w.hs[h].state = "loaded" /\ ~w.hs[h].playing
  THEN [w EXCEPT !.hs[h].playing = TRUE, !.hs[h].playEvent = TRUE]
  ELSE IF w.hs[h].state = "loading"
       THEN [w EXCEPT !.hs[h].playQueued = TRUE]
       ELSE w

\* soundToUse.on('play', ...): the handler that publishes the handle's song.
OnPlayHandler(w, h) == [w EXCEPT !.hs[h].promoted = TRUE]

\* Math.floor(Math.random() * list.length): any element of a non-empty list.
RandomSong(list, r) == IF Includes(list, r) THEN r ELSE list[1]

\* songs.filter(song => song.id !== currentSong?.id)
ExceptCurrent(songs, currentSong) == Without(songs, currentSong)

\* ------------------------------------------------------- preloadNextSong
\* preloadNextSong / preloadNextSongUpdated run in closure E; kind tells
\* which of the two created the handle (its retry timer calls the same one).
PreloadFrom(E) ==
  LET unplayedSongs == ExceptCurrent(NotIn(E.songs, E.playedSongs), E.currentSong)
  IN IF Len(unplayedSongs) > 0 THEN unplayedSongs
     ELSE IF Len(E.availableSongs) > 0 THEN E.availableSongs
     ELSE ExceptCurrent(E.songs, E.currentSong)

PreloadResets(E) ==
  /\ Len(ExceptCurrent(NotIn(E.songs, E.playedSongs), E.currentSong)) = 0
  /\ Len(E.availableSongs) = 0

\* The list preloadNextSong draws from in closure E (empty: it draws nothing).
PreloadDraws(E) ==
  IF E.nextSound # NoHandle \/ Len(E.songs) = 0 THEN <<>> ELSE PreloadFrom(E)

preloadNextSong(w, E, r, kind) ==
  LET resetPlayed(x) ==
        IF PreloadResets(E)
        THEN SetArr(SetArr(x, "availableSongs", ExceptCurrent(E.songs, E.currentSong)),
                    "playedSongs",
                    IF E.currentSong # None THEN <<E.currentSong>> ELSE <<>>)
        ELSE x
      setNextSound(x) == SetVal(x, "nextSound", Len(x.hs))
      create(x) ==
        IF Len(PreloadFrom(E)) = 0 THEN x
        ELSE setNextSound(NewHowl(x, RandomSong(PreloadFrom(E), r), kind, E, 0, FALSE))
  IN IF E.nextSound # NoHandle THEN w
     ELSE IF Len(E.songs) = 0 THEN w
     ELSE create(resetPlayed(w))

\* ---------------------------------------------------------- playNextSong
\* The preloaded handle is used only if its source matches an available song.
UsesPreloaded(w, E) ==
  /\ E.nextSound # NoHandle
  /\ Includes(E.availableSongs, w.hs[E.nextSound].track)

PlayCandidates(E) ==
  IF Len(E.availableSongs) > 0 THEN E.availableSongs
  ELSE ExceptCurrent(E.songs, E.currentSong)

\* The reset of the played list at the start of playNextSong.
PlayResets(E) == Len(E.playedSongs) >= Len(E.songs) - 1

\* setTimeout(() => { if (!nextSound) preloadNextSong(); }, 500) of closure E.
SchedulePreload(w, E) ==
  IF E.nextSound = NoHandle
  THEN AddTimer(w, [kind |-> "preload", env |-> PnsEnv(E), h |-> NoHandle])
  ELSE w

\* if (sound) { sound.stop(); sound.unload(); setSound(null); setIsPlaying(false) }
ReleaseCurrent(w, E) ==
  IF E.sound # NoHandle
  THEN SetVal(SetVal(StopUnload(w, E.sound), "sound", NoHandle), "isPlaying", FALSE)
  ELSE w

\* What playNextSong does once the song and the handle are chosen.
StartSong(w, E, songToPlay, h) ==
  LET pushHistory(x) ==
        IF E.currentSong # None
        THEN SetArr(x, "previousSongs", Append(x.st.previousSongs, E.currentSong))
        ELSE x
      markPlayed(x) ==
        SetArr(SetArr(x, "playedSongs", Append(x.st.playedSongs, songToPlay)),
               "availableSongs", Without(x.st.availableSongs, songToPlay))
      play(x) == [HowlPlay(SetVal(x, "sound", h), h) EXCEPT
                    !.plays = Append(@, songToPlay)]
  IN SchedulePreload(play(markPlayed(pushHistory(OnPlayHandler(w, h)))), E)

playNextSong(w, E, r) ==
  LET resetPlayed(x) ==
        IF PlayResets(E)
        THEN SetArr(SetArr(x, "playedSongs",
                           IF E.currentSong # None THEN <<E.currentSong>> ELSE <<>>),
                    "availableSongs", ExceptCurrent(E.songs, E.currentSong))
        ELSE x
      startFresh(x, songToPlay) ==
        StartSong(NewHowl(x, songToPlay, "next", E, 0, FALSE), E, songToPlay,
                  Len(x.hs) + 1)
      start(x) ==
        IF UsesPreloaded(x, E)
        THEN StartSong(SetVal(x, "nextSound", NoHandle), E,
                       x.hs[E.nextSound].track, E.nextSound)
        ELSE IF Len(PlayCandidates(E)) = 0 THEN Notify(x, "noMoreSongs")
        ELSE startFresh(x, RandomSong(PlayCandidates(E), r))
  IN IF Len(E.songs) = 0 THEN Notify(w, "noSongs")
     ELSE start(resetPlayed(ReleaseCurrent(w, E)))

\* What playSong and previousSong do with the new handle they created last.
StartCreated(w) ==
  HowlPlay(SetVal(OnPlayHandler(w, Len(w.hs)), "sound", Len(w.hs)), Len(w.hs))

\* -------------------------------------------------------------- playSong
playSong(w, E, songToPlay) ==
  SchedulePreload(
    StartCreated(NewHowl(ReleaseCurrent(w, E), songToPlay, "playSong", E, 0, FALSE)),
    E)

\* ---------------------------------------------------------- previousSong
\* previousSong whose empty-history branch releases the current sound before
\* it raises the notice.
previousSongBody_EmptyReleases(w, s) ==
  LET popHistory(x) == SetArr(x, "previousSongs", SliceDropLast(x.st.previousSongs))
      putBack(x) ==
        IF s.currentSong # None
        THEN SetArr(SetArr(x, "availableSongs",
                           <<s.currentSong>> \o x.st.availableSongs),
                    "playedSongs", Without(x.st.playedSongs, s.currentSong))
        ELSE x
      release(x) ==
        IF s.sound # NoHandle
        THEN SetVal(StopUnload(x, s.sound), "sound", NoHandle)
        ELSE x
      create(x) ==
        NewHowl(x, s.previousSongs[Len(s.previousSongs)], "previous", EnvOf(s),
                0, FALSE)
  IN IF Len(s.previousSongs) = 0 THEN Notify(release(w), "noPrevious")
     ELSE SchedulePreload(StartCreated(create(release(putBack(popHistory(w))))),
                          EnvOf(s))

\* The body handed to debounceButton by previousSong, in the latest render.
previousSongBody(w, s) ==
  LET popHistory(x) == SetArr(x, "previousSongs", SliceDropLast(x.st.previousSongs))
      putBack(x) ==
        IF s.currentSong # None
        THEN SetArr(SetArr(x, "availableSongs",
                           <<s.currentSong>> \o x.st.availableSongs),
                    "playedSongs", Without(x.st.playedSongs, s.currentSong))
        ELSE x
      release(x) ==
        IF s.sound # NoHandle
        THEN SetVal(StopUnload(x, s.sound), "sound", NoHandle)
        ELSE x
      create(x) ==
        NewHowl(x, s.previousSongs[Len(s.previousSongs)], "previous", EnvOf(s),
                0, FALSE)
  IN IF Len(s.previousSongs) = 0 THEN Notify(w, "noPrevious")
     ELSE SchedulePreload(StartCreated(create(release(putBack(popHistory(w))))),
                          EnvOf(s))

\* ------------------------------------------------------------ togglePlay
\* togglePlay whose resume branch starts the current song in a new Howl.
togglePlayBody_ResumeInNewHowl(w, s, r) ==
  IF s.sound = NoHandle /\ ~s.isPlaying
  THEN IF s.shouldRestoreAudio THEN Notify(w, "restoring")
       ELSE IF s.currentSong # None /\ Len(s.songs) > 0
            THEN playSong(w, EnvOf(s), s.currentSong)
       ELSE IF Len(s.songs) = 0 THEN Notify(w, "noSongs")
       ELSE playNextSong(w, EnvOf(s), r)
  ELSE IF s.sound # NoHandle
       THEN IF w.hs[s.sound].playing
            THEN SetVal(SetVal([w EXCEPT !.hs[s.sound].playing = FALSE,
                                         !.hs[s.sound].playEvent = FALSE],
                               "isPlaying", FALSE),
                        "currentTime", w.hs[s.sound].pos)
            ELSE playSong(w, EnvOf(s), w.hs[s.sound].track)
       ELSE w

\* The body handed to debounceButton by togglePlay, in the latest render.
togglePlayBody(w, s, r) ==
  IF s.sound = NoHandle /\ ~s.isPlaying
  THEN IF s.shouldRestoreAudio THEN Notify(w, "restoring")
       ELSE IF s.currentSong # None /\ Len(s.songs) > 0
            THEN playSong(w, EnvOf(s), s.currentSong)
       ELSE IF Len(s.songs) = 0 THEN Notify(w, "noSongs")
       ELSE playNextSong(w, EnvOf(s), r)
  ELSE IF s.sound # NoHandle
       THEN IF w.hs[s.sound].playing
            THEN SetVal(SetVal([w EXCEPT !.hs[s.sound].playing = FALSE,
                                         !.hs[s.sound].playEvent = FALSE],
                               "isPlaying", FALSE),
                        "currentTime", w.hs[s.sound].pos)
            ELSE HowlPlay(w, s.sound)
       ELSE w

\* -------------------------------------------------------------- skipSong
skipSongBody(w, s, r, r2) ==
  LET offEnd(x) ==
        IF s.sound # NoHandle THEN [x EXCEPT !.hs[s.sound].endOn = FALSE] ELSE x
  IN IF Len(s.songs) = 0 THEN Notify(w, "noSongsToSkip")
     ELSE IF s.nextSound = NoHandle /\ Len(s.availableSongs) > 0
          THEN AddTimer(preloadNextSong(offEnd(w), PnsEnv(EnvOf(s)), r2, "preload"),
                        [kind |-> "skipNext", env |-> EnvOf(s), h |-> NoHandle])
          ELSE playNextSong(offEnd(w), EnvOf(s), r)

\* --------------------------------------------------------- resetPlaylist
resetPlaylist(w, s) ==
  IF Len(s.songs) = 0 THEN Notify(w, "noSongsToReset")
  ELSE SchedulePreload(
         SetArr(SetArr(w, "playedSongs",
                       IF s.currentSong # None THEN <<s.currentSong>> ELSE <<>>),
                "availableSongs", ExceptCurrent(s.songs, s.currentSong)),
         EnvOf(s))

\* -------------------------------------------------------- debounceButton
\* The early return left out: the callback runs on every click.
debounceButton_NoCooldown(w, s, wAfterCallback) ==
  AddTimer(SetVal(wAfterCallback, "isButtonDisabled", TRUE),
           [kind |-> "debounce", env |-> NoEnv, h |-> NoHandle])

\* In render s: returns at once while the buttons are disabled; otherwise
\* disables them, runs the callback and re-enables them 500ms later.
debounceButton(w, s, wAfterCallback) ==
  IF s.isButtonDisabled THEN w
  ELSE AddTimer(SetVal(wAfterCallback, "isButtonDisabled", TRUE),
                [kind |-> "debounce", env |-> NoEnv, h |-> NoHandle])

\* -------------------------------------------------------- toggleLanguage
toggleLanguage(w, languageId) ==
  IF Includes(w.st.selectedLanguages, languageId)
  THEN LET newLanguages == Without(w.st.selectedLanguages, languageId)
       IN SetArr(IF Len(newLanguages) = 0 THEN Notify(w, "noLanguages") ELSE w,
                 "selectedLanguages", newLanguages)
  ELSE SetArr(w, "selectedLanguages", Append(w.st.selectedLanguages, languageId))

\* ---------------------------------------------------------- restoreAudio
\* The body of the restoration timer, in the closure E of the render whose
\* effect scheduled it.
\* restoreAudio without the songExists check.
restoreAudio_NoExistsCheck(w, E) ==
  LET setSound(x) == SetVal(x, "sound", Len(x.hs))
  IN SchedulePreload(
       setSound(NewHowl(w, E.currentSong, "restore", E, w.ls.audioPosition,
                        w.ls.wasPlaying = "true")),
       E)

restoreAudio(w, E) ==
  LET setSound(x) == SetVal(x, "sound", Len(x.hs))
  IN IF ~Includes(E.songs, E.currentSong)
     THEN ClearSavedSong(SetVal(SetVal(w, "shouldRestoreAudio", FALSE),
                                "currentSong", None))
     ELSE SchedulePreload(
            setSound(NewHowl(w, E.currentSong, "restore", E, w.ls.audioPosition,
                             w.ls.wasPlaying = "true")),
            E)

\* validPosition of the restored handle's onload.
ValidPosition(position, currentDuration) ==
  IF currentDuration > 0 THEN Min(position, currentDuration) ELSE position

\* ---------------------------------------------------------------- effects
\* The dependencies shared by playNextSong, preloadNextSong and
\* preloadNextSongUpdated.
CoreDeps ==
  {"songs", "sound", "playedSongs", "currentSong", "availableSongs", "nextSound",
   "volume"}

PnsDeps == CoreDeps \ {"sound"}

\* The operands of the subtraction swapped: every past save looks recent.
IsRecent_Swapped(savedTimestamp) ==
  savedTimestamp = 0 \/ (savedTimestamp - Now) < DayInMs

\* !savedTimestamp || (now - parseInt(savedTimestamp)) < dayInMs
IsRecent(savedTimestamp) ==
  savedTimestamp = 0 \/ (Now - savedTimestamp) < DayInMs

\* "Load saved preferences from localStorage" (mount only).
LoadSavedPreferences(w) ==
  LET loadPreferences(x) ==
        IF x.ls.saved
        THEN SetArr(SetVal(SetArr(x, "selectedLanguages", x.ls.selectedLanguages),
                           "volume", parseFloat(x.ls.volume)),
                    "playedSongs", x.ls.playedSongs)
        ELSE x
      loadSong(x) ==
        IF x.ls.currentSong = None THEN x
        ELSE IF IsRecent(x.ls.audioPositionTimestamp)
             THEN SetArr(SetVal(SetVal(x, "currentSong", x.ls.currentSong),
                                "shouldRestoreAudio", TRUE),
                         "selectedLanguages",
                         Append(x.st.selectedLanguages, LanguageOf(x.ls.currentSong)))
             ELSE ClearSavedSong(x)
  IN loadSong(loadPreferences(w))

\* "Fetch songs when selected languages change".
FetchSongsEffect(w, cur) ==
  IF Len(cur.selectedLanguages) = 0
  THEN SetArr(SetArr(w, "songs", <<>>), "availableSongs", <<>>)
  ELSE [SetVal(w, "loading", TRUE) EXCEPT
          !.fq = @ \cup {[languages |-> cur.selectedLanguages,
                          playedSongs |-> cur.playedSongs]}]

\* One flush of the effects of render cur, which follows render prev; fresh
\* names the array cells set since prev, first marks the mount.  Every effect
\* reads cur; its state updates land in w for the next render.
EffectsPass(w, prev, cur, fresh, first, r1, r2) ==
  LET Ch(f) == first \/ prev[f] # cur[f] \/ f \in fresh
      coreCh == \E f \in CoreDeps : Ch(f)
      \* time tracking effect
      trackTime(x) ==
        IF /\ (Ch("isPlaying") \/ Ch("sound") \/ Ch("currentSong"))
           /\ ~(cur.isPlaying /\ cur.sound # NoHandle /\ cur.currentSong # None)
           /\ ~cur.isPlaying /\ cur.currentSong = None
        THEN SetVal(x, "currentTime", 0) ELSE x
      \* reset time when the current song changes
      resetTime(x) ==
        IF (Ch("currentSong") \/ Ch("shouldRestoreAudio"))
           /\ (cur.currentSong = None \/ ~cur.shouldRestoreAudio)
        THEN SetVal(x, "currentTime", 0) ELSE x
      loadSaved(x) == IF first THEN LoadSavedPreferences(x) ELSE x
      \* save preferences
      savePreferences(x) ==
        IF Ch("selectedLanguages") \/ Ch("volume") \/ Ch("playedSongs")
        THEN [x EXCEPT !.ls.saved = TRUE,
                       !.ls.selectedLanguages = cur.selectedLanguages,
                       !.ls.volume = VolumeToString(cur.volume),
                       !.ls.playedSongs = cur.playedSongs]
        ELSE x
      \* save current song state
      saveSong(x) ==
        IF Ch("currentSong") \/ Ch("isPlaying")
        THEN saveCurrentSongState(x, cur.currentSong, cur.isPlaying)
        ELSE x
      fetchSongs(x) ==
        IF Ch("selectedLanguages") \/ Ch("playedSongs")
        THEN FetchSongsEffect(x, cur) ELSE x
      \* the two effects that call preloadNextSongUpdated
      preloadOnSong(x) ==
        IF (Ch("currentSong") \/ Ch("loading") \/ coreCh)
           /\ cur.currentSong # None /\ ~cur.loading
        THEN [preloadNextSong(x, EnvOf(cur), r1, "preloadU") EXCEPT
                !.rnd1 = IF PreloadDraws(EnvOf(cur)) = <<>> THEN @
                        ELSE PreloadDraws(EnvOf(cur))]
        ELSE x
      preloadOnPlaying(x) ==
        IF (Ch("isPlaying") \/ coreCh)
           /\ cur.isPlaying /\ cur.nextSound = NoHandle
           /\ Len(cur.availableSongs) > 0
        THEN [preloadNextSong(x, EnvOf(cur), r2, "preloadU") EXCEPT
                !.rnd2 = IF PreloadDraws(EnvOf(cur)) = <<>> THEN @
                        ELSE PreloadDraws(EnvOf(cur))]
        ELSE x
      \* audio restoration effect
      restore(x) ==
        IF (Ch("shouldRestoreAudio") \/ Ch("loading") \/ coreCh)
           /\ cur.shouldRestoreAudio /\ cur.currentSong # None
           /\ Len(cur.songs) > 0 /\ ~cur.loading
        THEN AddTimer(x, [kind |-> "restoreAudio", env |-> EnvOf(cur), h |-> NoHandle])
        ELSE x
  IN restore(preloadOnPlaying(preloadOnSong(fetchSongs(saveSong(savePreferences(
       loadSaved(resetTime(trackTime(w)))))))))

MaxPasses == 6

\* The state of the render that follows render prev once the updates in w
\* are committed; the memoised preloadNextSong is re-created, and takes the
\* new sound, only when one of its dependencies has changed.
Render(w, prev, first) ==
  [w.st EXCEPT !.pnsSound =
     IF first \/ \E f \in PnsDeps : prev[f] # w.st[f] \/ f \in w.fresh
     THEN w.st.sound ELSE prev.pnsSound]

RECURSIVE Commit(_, _, _, _, _, _)
\* React commits the state a handler left in w, re-renders, flushes the
\* effects, and repeats while an effect has set state.
Commit(w, prev, first, r1, r2, n) ==
  LET flush(cur) ==
        EffectsPass([w EXCEPT !.st = cur, !.fresh = {}], prev, cur, w.fresh,
                    first, r1, r2)
      again(x, cur) ==
        IF (x.st = cur /\ x.fresh = {}) \/ n = 0 THEN [x EXCEPT !.fresh = {}]
        ELSE Commit(x, cur, FALSE, r1, r2, n - 1)
      render(cur) == again(flush(cur), cur)
  IN render(Render(w, prev, first))

\* The values a random draw from list can take; in a run with firstDraw,
\* Math.random() always returns a number below 1/list.length.
Draws(list) ==
  IF Len(list) = 0 THEN {None}
  ELSE IF run.firstDraw THEN {list[1]} ELSE Elems(list)

\* The committed world becomes the next state.
Apply(w) ==
  /\ Len(w.hs) <= run.handles
  /\ st' = w.st
  /\ ls' = w.ls
  /\ handles' = w.hs
  /\ timers' = w.tm
  /\ fetches' = w.fq
  /\ toast' = w.toast
  /\ plays' = w.plays
  /\ api' = api

\* The random draws of the two preload effects of a commit that, with no
\* draw made, recorded the lists in dry.
StepDraws(w, dry) ==
  \E r1 \in Draws(dry.rnd1), r2 \in Draws(dry.rnd2) :
    Apply(Commit(w, st, FALSE, r1, r2, MaxPasses))

\* A step of the program: the handler's world, committed, for every outcome
\* of the random draws of the preload effects.
Step(w) == StepDraws(w, Commit(w, st, FALSE, None, None, MaxPasses))

\* No request has reached the API routes yet.
NoRequest == [route |-> "none"]

\* ----------------------------------------------------------------- Init
TypicalLs ==
  [ saved |-> FALSE, selectedLanguages |-> <<>>, playedSongs |-> <<>>,
    volume |-> VolumeToString(7), currentSong |-> None, wasPlaying |-> None,
    audioPosition |-> 0, audioPositionTimestamp |-> 0 ]

\* What an earlier session can have left in localStorage: the preferences of
\* a visitor who had selected languages, with no current song saved.
ReturningLs ==
  { [TypicalLs EXCEPT !.saved = TRUE, !.selectedLanguages = l] :
      l \in {<<"en">>} }

InitWith(snapshots, b) ==
  /\ st = InitialState
  /\ ls \in snapshots
  /\ handles = <<>>
  /\ timers = {}
  /\ fetches = {}
  /\ mounted = FALSE
  /\ langFetch = FALSE
  /\ toast = None
  /\ run = [b EXCEPT !.snapshot = ls]
  /\ errors = 0
  /\ fetchErrors = 0
  /\ clicks = 0
  /\ ignored = 0
  /\ api = NoRequest
  /\ plays = <<>>

\* A run of at most h Howls, c user actions, e load errors and f failed
\* /api/songs answers, with free random draws; snapshot is filled in by Init
\* with what localStorage held at the cold start; reloads counts the times
\* the page was closed and opened again, closed is the state at the last close.
Run(h, c, e, f) ==
  [handles |-> h, clicks |-> c, loadErrors |-> e, fetchErrors |-> f,
   firstDraw |-> FALSE, snapshot |-> TypicalLs, reloads |-> 0,
   closed |-> InitialState, savedFrom |-> None]

FirstDraw(b) == [b EXCEPT !.firstDraw = TRUE]

Init == InitWith(ReturningLs, Run(MaxHandles, MaxUserActions, MaxLoadErrors, MaxFetchErrors))

Frame == UNCHANGED <<mounted, langFetch, run, errors, fetchErrors, clicks, ignored>>

\* A user action, counted against the bound on user actions.
Click ==
  /\ mounted
  /\ clicks < run.clicks
  /\ clicks' = clicks + 1
  /\ UNCHANGED <<mounted, langFetch, run, errors, fetchErrors, ignored>>

\* A click on one of the three debounced buttons.
ButtonClick ==
  /\ mounted
  /\ clicks < run.clicks
  /\ clicks' = clicks + 1
  /\ ignored' = IF st.isButtonDisabled THEN ignored + 1 ELSE ignored
  /\ UNCHANGED <<mounted, langFetch, run, errors, fetchErrors>>

\* --------------------------------------------------------------- actions
\* The provider mounts: every effect runs once on the initial render, and
\* /api/languages is requested.
Mount ==
  /\ ~mounted
  /\ Apply(Commit(World, InitialState, TRUE, None, None, MaxPasses))
  /\ mounted' = TRUE
  /\ langFetch' = TRUE
  /\ UNCHANGED <<run, errors, fetchErrors, clicks, ignored>>

\* /api/languages answers (fetchLanguages): loading goes false either way; a
\* failed answer leaves the selector empty, so no language can be toggled.
LanguagesFetched ==
  /\ langFetch
  /\ Step(SetVal(World, "loading", FALSE))
  /\ langFetch' = FALSE
  /\ UNCHANGED <<mounted, run, errors, fetchErrors, clicks, ignored>>

\* The catch branch of fetchSongs.
FetchSongsFailed(w) ==
  SetVal(SetArr(SetArr(Notify(w, "fetchFailed"), "songs", <<>>),
                "availableSongs", <<>>),
         "loading", FALSE)

\* /api/songs answers request f with its songs; an empty union is the
\* server's 404, which fetchSongs treats as a failure.
SongsFetched(f) ==
  /\ f \in fetches
  /\ LET w == [World EXCEPT !.fq = @ \ {f}]
         data == getSongsByLanguages(f.languages)
         w2 == IF Len(data) = 0 THEN FetchSongsFailed(w)
               ELSE SetVal(SetArr(SetArr(w, "songs", data),
                                  "availableSongs", NotIn(data, f.playedSongs)),
                           "loading", FALSE)
     IN Step(w2)
  /\ Frame

\* /api/songs fails (network, 5xx).
SongsFetchError(f) ==
  /\ f \in fetches
  /\ fetchErrors < run.fetchErrors
  /\ Step(FetchSongsFailed([World EXCEPT !.fq = @ \ {f}]))
  /\ fetchErrors' = fetchErrors + 1
  /\ UNCHANGED <<mounted, langFetch, run, errors, clicks, ignored>>

\* The three debounced buttons, pressed in the latest render.
TogglePlay ==
  /\ \E r \in Draws(PlayCandidates(EnvOf(st))) :
       Step(debounceButton(World, st, togglePlayBody(World, st, r)))
  /\ ButtonClick

SkipSong ==
  /\ \E r \in Draws(PlayCandidates(EnvOf(st))),
        r2 \in Draws(PreloadDraws(PnsEnv(EnvOf(st)))) :
       Step(debounceButton(World, st, skipSongBody(World, st, r, r2)))
  /\ ButtonClick

PreviousSong ==
  /\ Step(debounceButton(World, st, previousSongBody(World, st)))
  /\ ButtonClick

ResetPlaylist ==
  /\ Step(resetPlaylist(World, st))
  /\ Click

ToggleLanguage(languageId) ==
  /\ ~langFetch
  /\ Step(toggleLanguage(World, languageId))
  /\ Click

\* ------------------------------------------------------------ Howl events
\* onload of the restored handle.
RestoredOnLoad(w, h) ==
  LET hd == w.hs[h]
      w1 == IF hd.savedPosition > 0
            THEN AddTimer(w, [kind |-> "restoreSeek", env |-> NoEnv, h |-> h])
            ELSE SetVal(w, "currentTime", 0)
      w2 == IF hd.wasPlaying
            THEN AddTimer(w1, [kind |-> "restorePlay", env |-> NoEnv, h |-> h])
            ELSE Notify(SetVal(w1, "isPlaying", FALSE), "restoredPaused")
  IN AddTimer(w2, [kind |-> "restoreDone", env |-> NoEnv, h |-> h])

\* The handle has loaded: onload runs, then a queued play() starts.
HowlLoaded(h) ==
  /\ h \in 1..Len(handles)
  /\ handles[h].state = "loading"
  /\ LET w == [World EXCEPT !.hs[h].state = "loaded"]
         w1 == IF w.hs[h].kind = "restore" /\ w.hs[h].listeners
               THEN RestoredOnLoad(w, h) ELSE w
         w2 == IF w.hs[h].playQueued
               THEN [HowlPlay(w1, h) EXCEPT !.hs[h].playQueued = FALSE]
               ELSE w1
     IN Step(w2)
  /\ Frame

\* onloaderror whose preload branch treats the failure as one of the current
\* song: it raises the notice and clears the current song and isPlaying.
OnLoadError_PreloadAsCurrent(w, h) ==
  LET hd == handles[h]
      failed == SetVal(SetVal(w, "currentSong", None), "isPlaying", FALSE)
      retry == [kind |-> "playNext", env |-> hd.env, h |-> NoHandle]
  IN CASE hd.kind = "next" ->
            AddTimer(SetArr(Notify(failed, "couldNotLoad"), "availableSongs",
                            Without(w.st.availableSongs, hd.track)), retry)
       [] hd.kind = "playSong" -> AddTimer(failed, retry)
       [] hd.kind = "previous" -> AddTimer(Notify(failed, "couldNotLoadPrevious"), retry)
       [] hd.kind = "restore" ->
            ClearSavedSong(SetVal(Notify(failed, "couldNotRestore"),
                                  "shouldRestoreAudio", FALSE))
       [] OTHER ->
            AddTimer(SetVal(Notify(failed, "couldNotLoad"), "nextSound", NoHandle),
                     [kind |-> hd.kind, env |-> hd.env, h |-> NoHandle])

\* onloaderror of each kind of handle.
OnLoadError(w, h) ==
  LET hd == handles[h]
      failed == SetVal(SetVal(w, "currentSong", None), "isPlaying", FALSE)
      retry == [kind |-> "playNext", env |-> hd.env, h |-> NoHandle]
  IN CASE hd.kind = "next" ->
            AddTimer(SetArr(Notify(failed, "couldNotLoad"), "availableSongs",
                            Without(w.st.availableSongs, hd.track)), retry)
       [] hd.kind = "playSong" -> AddTimer(failed, retry)
       [] hd.kind = "previous" -> AddTimer(Notify(failed, "couldNotLoadPrevious"), retry)
       [] hd.kind = "restore" ->
            ClearSavedSong(SetVal(Notify(failed, "couldNotRestore"),
                                  "shouldRestoreAudio", FALSE))
       [] OTHER ->
            AddTimer(SetVal(w, "nextSound", NoHandle),
                     [kind |-> hd.kind, env |-> hd.env, h |-> NoHandle])

HowlLoadError(h) ==
  /\ h \in 1..Len(handles)
  /\ handles[h].state = "loading"
  /\ errors < run.loadErrors
  /\ LET w == [World EXCEPT !.hs[h].state = "failed", !.hs[h].playQueued = FALSE,
                            !.hs[h].env = NoEnv]
     IN Step(IF handles[h].listeners THEN OnLoadError(w, h) ELSE w)
  /\ errors' = errors + 1
  /\ UNCHANGED <<mounted, langFetch, run, fetchErrors, clicks, ignored>>

\* The 'play' event of a handle that has started: onplay and on('play').
OnPlay(w, h) ==
  LET hd == w.hs[h]
      w1 == IF hd.promoted \/ hd.kind = "restore"
            THEN SetVal(w, "isPlaying", TRUE) ELSE w
      w2 == IF hd.promoted THEN SetVal(w1, "currentSong", hd.track) ELSE w1
  IN SetVal(w2, "currentTime", hd.pos)

HowlPlayEvent(h) ==
  /\ h \in 1..Len(handles)
  /\ handles[h].playEvent
  /\ LET w == [World EXCEPT !.hs[h].playEvent = FALSE]
     IN Step(IF w.hs[h].listeners THEN OnPlay(w, h) ELSE w)
  /\ Frame

\* The song has played to its end: onend schedules playNextSong of the
\* closure that created the handle, unless skipSong has removed the listener;
\* the timer carries the Howl whose onend set it.
HowlEnded(h) ==
  /\ h \in 1..Len(handles)
  /\ handles[h].playing /\ ~handles[h].playEvent
  /\ LET w == [World EXCEPT !.hs[h].playing = FALSE, !.hs[h].pos = 0]
     IN Step(IF w.hs[h].endOn
               THEN AddTimer(w, [kind |-> "playNext", env |-> w.hs[h].env, h |-> h])
               ELSE w)
  /\ Frame

\* ---------------------------------------------------------------- timers
Pending(kind) == {t \in timers : t.kind = kind}

\* playNextSong from a timer: the 300ms one of onend, the 500ms retry of
\* onloaderror, or the 100ms one of skipSong.
TimerPlayNext ==
  \E t \in Pending("playNext") \cup Pending("skipNext") : \E r \in Draws(PlayCandidates(t.env)) :
    /\ Step(playNextSong([World EXCEPT !.tm = @ \ {t}], t.env, r))
    /\ Frame

TimerPreload ==
  \E t \in Pending("preload") \cup Pending("preloadU") :
   \E r \in Draws(PreloadDraws(t.env)) :
    /\ Step(preloadNextSong([World EXCEPT !.tm = @ \ {t}], t.env, r, t.kind))
    /\ Frame

\* The 500ms timer of debounceButton; the 100ms timer skipSong set in the
\* same click has fired by then.
TimerDebounce ==
  \E t \in Pending("debounce") :
    /\ Pending("skipNext") = {}
    /\ Step(SetVal([World EXCEPT !.tm = @ \ {t}], "isButtonDisabled", FALSE))
    /\ Frame

TimerRestoreAudio ==
  \E t \in Pending("restoreAudio") :
    /\ Step(restoreAudio([World EXCEPT !.tm = @ \ {t}], t.env))
    /\ Frame

\* The three timers set by the restored handle's onload fire in the order of
\* their delays: seek (300ms), play (400ms), completion (600ms).
TimerRestoreSeek ==
  \E t \in Pending("restoreSeek") :
    /\ LET w == [World EXCEPT !.tm = @ \ {t}]
           hd == w.hs[t.h]
           validPosition == ValidPosition(hd.savedPosition, DurationOf(hd.track))
       IN Step(SetVal(IF hd.state = "loaded"
                      THEN [w EXCEPT !.hs[t.h].pos = validPosition] ELSE w,
                      "currentTime", validPosition))
    /\ Frame

TimerRestorePlay ==
  \E t \in Pending("restorePlay") :
    /\ [t EXCEPT !.kind = "restoreSeek"] \notin timers
    /\ Step(Notify(SetVal(HowlPlay([World EXCEPT !.tm = @ \ {t}], t.h),
                          "isPlaying", TRUE), "resumed"))
    /\ Frame

TimerRestoreDone ==
  \E t \in Pending("restoreDone") :
    /\ [t EXCEPT !.kind = "restoreSeek"] \notin timers
    /\ [t EXCEPT !.kind = "restorePlay"] \notin timers
    /\ Step(SetVal([World EXCEPT !.tm = @ \ {t}], "shouldRestoreAudio", FALSE))
    /\ Frame

\* savePlaybackPosition(sound), from the 5s interval, visibilitychange or
\* beforeunload while playing; the handle is somewhere in the song.  seek()
\* of a Howl whose playback has not begun is 0, which is not saved.
\* run.savedFrom remembers the track of the Howl the position was read from.
SavePosition ==
  /\ st.isPlaying /\ st.sound # NoHandle /\ st.currentSong # None
  /\ handles[st.sound].state = "loaded"
  /\ handles[st.sound].playing /\ ~handles[st.sound].playEvent
  /\ \E position \in handles[st.sound].pos .. DurationOf(handles[st.sound].track) :
       /\ position > 0
       /\ ls' = [ls EXCEPT !.audioPosition = position,
                           !.audioPositionTimestamp = Now]
  /\ run' = [run EXCEPT !.savedFrom = handles[st.sound].track]
  /\ toast' = None
  /\ UNCHANGED <<st, handles, timers, fetches, mounted, langFetch, errors,
                 fetchErrors, clicks, ignored, api, plays>>

\* The volumes the slider is set to, in tenths.
Volumes == {0, 3, 10}

\* setVolume(v) from the volume slider.
SetVolume(v) ==
  /\ v # st.volume
  /\ Step(SetVal(World, "volume", v))
  /\ Click

MaxReloads == 1

\* The position handleBeforeUnload saves: sound.seek() of the current Howl,
\* kept only when positive; the listener exists only while playing.
PositionsAtUnload ==
  IF st.isPlaying /\ st.sound # NoHandle /\ st.currentSong # None
     /\ handles[st.sound].state = "loaded"
     /\ handles[st.sound].playing /\ ~handles[st.sound].playEvent
  THEN handles[st.sound].pos .. DurationOf(handles[st.sound].track)
  ELSE {0}

\* The page is closed and opened again within the day: beforeunload saves
\* the position, every Howl, timer and request dies with the page,
\* localStorage stays, and the provider is constructed anew.
Reload ==
  /\ mounted
  /\ run.reloads < MaxReloads
  /\ \E position \in PositionsAtUnload :
       /\ ls' = IF position > 0
               THEN [ls EXCEPT !.audioPosition = position,
                               !.audioPositionTimestamp = Now]
               ELSE ls
       /\ run' = [run EXCEPT !.reloads = @ + 1, !.closed = st, !.snapshot = ls',
                             !.savedFrom = IF position > 0
                                           THEN handles[st.sound].track ELSE @]
  /\ st' = InitialState
  /\ handles' = <<>>
  /\ timers' = {}
  /\ fetches' = {}
  /\ mounted' = FALSE
  /\ langFetch' = FALSE
  /\ toast' = None
  /\ plays' = <<>>
  /\ UNCHANGED <<errors, fetchErrors, clicks, ignored, api>>

Next ==
  \/ Mount
  \/ LanguagesFetched
  \/ \E f \in fetches : SongsFetched(f)
  \/ \E f \in fetches : SongsFetchError(f)
  \/ \E v \in Volumes : SetVolume(v)
  \/ Reload
  \/ TogglePlay
  \/ SkipSong
  \/ PreviousSong
  \/ ResetPlaylist
  \/ \E l \in Elems(ManifestLanguages) : ToggleLanguage(l)
  \/ \E h \in 1..Len(handles) : HowlLoaded(h)
  \/ \E h \in 1..Len(handles) : HowlLoadError(h)
  \/ \E h \in 1..Len(handles) : HowlPlayEvent(h)
  \/ \E h \in 1..Len(handles) : HowlEnded(h)
  \/ TimerPlayNext
  \/ TimerPreload
  \/ TimerDebounce
  \/ TimerRestoreAudio
  \/ TimerRestoreSeek
  \/ TimerRestorePlay
  \/ TimerRestoreDone
  \/ SavePosition

Spec == Init /\ [][Next]_vars

\* ------------------------------------------------- automatic advances only
\* A listener presses play once and lets the radio run: every later track
\* change is an automatic advance, no load fails and the catalog is fixed.
InitAuto == InitWith(ReturningLs, Run(MaxHandles, 1, 0, 0))

NextAuto ==
  \/ Mount
  \/ LanguagesFetched
  \/ \E f \in fetches : SongsFetched(f)
  \/ TogglePlay
  \/ \E h \in 1..Len(handles) : HowlLoaded(h)
  \/ \E h \in 1..Len(handles) : HowlPlayEvent(h)
  \/ \E h \in 1..Len(handles) : HowlEnded(h)
  \/ TimerPlayNext
  \/ TimerPreload
  \/ TimerDebounce

SpecAuto == InitAuto /\ [][NextAuto]_vars

\* C1: with a fixed catalog of N tracks and no load failure, no track is
\* started twice among the first N plays of a run of automatic advances.
C1_NoRepeatInFirstN ==
  \A i, j \in 1..Min(Len(plays), Len(st.songs)) :
    i # j => plays[i] # plays[j]

\* ------------------------------------------------- play, skip and previous
\* Two user actions among play/pause, skip and previous, with every event
\* and timer interleaved freely.
InitNav == InitWith(ReturningLs, Run(MaxHandlesNav, MaxClicksNav, 0, 0))

NextNav ==
  \/ Mount
  \/ LanguagesFetched
  \/ \E f \in fetches : SongsFetched(f)
  \/ TogglePlay
  \/ SkipSong
  \/ PreviousSong
  \/ \E h \in 1..Len(handles) : HowlLoaded(h)
  \/ \E h \in 1..Len(handles) : HowlPlayEvent(h)
  \/ \E h \in 1..Len(handles) : HowlEnded(h)
  \/ TimerPlayNext
  \/ TimerPreload
  \/ TimerDebounce

SpecNav == InitNav /\ [][NextNav]_vars

\* C2: in every reachable state at most one Howl is playing.
C2_AtMostOnePlaying ==
  Cardinality({h \in 1..Len(handles) : handles[h].playing}) <= 1

\* ------------------------------------------------------- a long listening
\* Nothing is in flight: no request, no loading Howl, no pending 'play'
\* event, no timer.
Settled ==
  /\ fetches = {}
  /\ ~langFetch
  /\ timers = {}
  /\ \A h \in 1..Len(handles) :
       handles[h].state # "loading" /\ ~handles[h].playEvent

\* A listener who presses play, skips once and then lets the radio run; the
\* listener acts, and a track ends, only once everything in flight has
\* settled, and every random draw takes the first candidate.
InitLong == InitWith(ReturningLs, FirstDraw(Run(MaxHandlesLong, MaxClicksNav, 0, 0)))

NextLong ==
  \/ Mount
  \/ LanguagesFetched
  \/ \E f \in fetches : SongsFetched(f)
  \/ Settled /\ TogglePlay
  \/ Settled /\ SkipSong
  \/ \E h \in 1..Len(handles) : HowlLoaded(h)
  \/ \E h \in 1..Len(handles) : HowlPlayEvent(h)
  \/ \E h \in 1..Len(handles) : Settled /\ HowlEnded(h)
  \/ TimerPlayNext
  \/ TimerPreload
  \/ TimerDebounce

SpecLong == InitLong /\ [][NextLong]_vars

\* C3: the history of previous songs never holds more than 10 entries.
C3_HistoryAtMostTen == Len(st.previousSongs) <= 10

\* ------------------------------------------------------- back in history
\* A listener who plays, skips and goes back, acting only once everything in
\* flight has settled; tracks end whenever they end, and every random draw
\* takes the first candidate.
InitHist == InitWith(ReturningLs, FirstDraw(Run(MaxHandlesHist, MaxClicksHist, 0, 0)))

NextHist ==
  \/ Mount
  \/ LanguagesFetched
  \/ \E f \in fetches : SongsFetched(f)
  \/ Settled /\ TogglePlay
  \/ Settled /\ SkipSong
  \/ Settled /\ PreviousSong
  \/ \E h \in 1..Len(handles) : HowlLoaded(h)
  \/ \E h \in 1..Len(handles) : HowlPlayEvent(h)
  \/ \E h \in 1..Len(handles) : HowlEnded(h)
  \/ TimerPlayNext
  \/ TimerPreload
  \/ TimerDebounce

SpecHist == InitHist /\ [][NextHist]_vars

\* C4: an accepted previousSong with a non-empty history drops exactly the
\* last entry and makes a new Howl of that entry's song the current sound, so
\* from a history of k entries it succeeds k times in a row; with an empty
\* history it raises the 'no previous songs' notice and changes neither the
\* current song, the current sound, the Howls nor the songs started.
C4_PreviousPopsOrReports ==
  [][PreviousSong =>
       IF Len(st.previousSongs) > 0
       THEN /\ st'.previousSongs =
                 SubSeq(st.previousSongs, 1, Len(st.previousSongs) - 1)
            /\ st'.sound = Len(handles) + 1
            /\ handles'[st'.sound].track = st.previousSongs[Len(st.previousSongs)]
            /\ toast' # "noPrevious"
       ELSE /\ toast' = "noPrevious"
            /\ st'.currentSong = st.currentSong
            /\ st'.sound = st.sound
            /\ handles' = handles
            /\ plays' = plays]_vars

\* A previousSong has succeeded, and a later one has found the history empty
\* while a song is current.
C4_Witness ==
  /\ toast = "noPrevious"
  /\ st.currentSong # None
  /\ \E h \in 1..Len(handles) : handles[h].kind = "previous"

\* ------------------------------------------------------------ cold start
\* What a session that was closed with a current song can have left in
\* localStorage: the song ("x" is no longer in the manifest), the playing
\* flag, and either no position or a position with the time it was saved at,
\* on either side of 24 hours before the cold start.
SavedAges == {DayInMs - 1, DayInMs, DayInMs + 1}

ColdSnapshots ==
  { [ saved |-> TRUE, selectedLanguages |-> l, playedSongs |-> <<>>,
      volume |-> VolumeToString(7), currentSong |-> c, wasPlaying |-> p,
      audioPosition |-> pt[1], audioPositionTimestamp |-> pt[2] ] :
      l \in {<<"en">>, <<"tr">>}, c \in {"a", "x"}, p \in {"true", "false"},
      pt \in {<<0, 0>>} \cup {<<pos, Now - age>> : pos \in {2, 5}, age \in SavedAges} }

\* The page is opened and left alone: nobody presses a button, no load and
\* no request fails.
InitCold == InitWith(ColdSnapshots, Run(MaxHandlesCold, 0, 0, 0))

NextCold ==
  \/ Mount
  \/ LanguagesFetched
  \/ \E f \in fetches : SongsFetched(f)
  \/ \E h \in 1..Len(handles) : HowlLoaded(h)
  \/ TimerRestoreAudio
  \/ TimerRestoreDone
  \/ TimerPreload

SpecCold == InitCold /\ [][NextCold]_vars

\* The snapshot of this run holds a position saved at most / more than 24
\* hours before the cold start.
Stale(snapshot) ==
  /\ snapshot.audioPositionTimestamp # 0
  /\ Now - snapshot.audioPositionTimestamp > DayInMs

Restorable(snapshot) ==
  /\ ~Stale(snapshot)
  /\ Now - snapshot.audioPositionTimestamp # DayInMs
  /\ Includes(st.songs, snapshot.currentSong)

\* The restored Howls whose restoration has run to its end: the Howl has
\* loaded and every timer its onload set has fired.
Restored ==
  { h \in 1..Len(handles) :
      /\ handles[h].kind = "restore"
      /\ handles[h].state = "loaded"
      /\ \A t \in timers : t.h # h }

\* C5: once the restoration of a restorable snapshot has run to its end, the
\* restored Howl is playing exactly if the snapshot's wasPlaying was 'true'.
C5_RestoredPlaysIffWasPlaying ==
  Restorable(run.snapshot) =>
    \A h \in Restored :
      handles[h].playing <=> run.snapshot.wasPlaying = "true"

\* C6: once the restoration of a restorable snapshot that holds a position
\* has run to its end, the restored Howl's position and currentTime are
\* min(saved position, duration).
C6_RestoredSeekIsClamped ==
  (Restorable(run.snapshot) /\ run.snapshot.audioPosition > 0) =>
    \A h \in Restored :
      /\ handles[h].pos =
           Min(run.snapshot.audioPosition, DurationOf(handles[h].track))
      /\ st.currentTime = handles[h].pos

\* C7: after a cold start from a snapshot whose position was saved more than
\* 24 hours earlier, no current song is set, no Howl exists, nothing plays,
\* no restoration is under way and the saved song is gone from localStorage.
C7_StaleNeverRestored ==
  (mounted /\ Stale(run.snapshot)) =>
    /\ st.currentSong = None
    /\ handles = <<>>
    /\ st.sound = NoHandle
    /\ ~st.isPlaying
    /\ ~st.shouldRestoreAudio
    /\ Pending("restoreAudio") = {}
    /\ ls.currentSong = None

\* The page has come up from a stale snapshot and the catalog has loaded.
C7_Witness ==
  /\ mounted
  /\ Stale(run.snapshot)
  /\ Len(st.songs) > 0
  /\ ~st.loading
  /\ fetches = {}

\* The song of the snapshot is in no language of the manifest.
Missing(snapshot) ==
  ~Includes(getSongsByLanguages(ManifestLanguages), snapshot.currentSong)

InitFail == InitWith(ReturningLs, Run(MaxHandles, 1, MaxLoadErrors, 0))

NextFail ==
  \/ Mount
  \/ LanguagesFetched
  \/ \E f \in fetches : SongsFetched(f)
  \/ TogglePlay
  \/ \E h \in 1..Len(handles) : HowlLoaded(h)
  \/ \E h \in 1..Len(handles) : HowlLoadError(h)
  \/ \E h \in 1..Len(handles) : HowlPlayEvent(h)
  \/ TimerPlayNext
  \/ TimerPreload
  \/ TimerDebounce

SpecFail == InitFail /\ [][NextFail]_vars

\* The number of times song was started.
Starts(song) == Cardinality({i \in 1..Len(plays) : plays[i] = song})

\* C9: the song of a Howl that playNextSong started and that failed to load
\* is not in availableSongs, and the retry does not start it again.
C9_FailedNotPickedAgain ==
  \A h \in 1..Len(handles) :
    (handles[h].kind = "next" /\ handles[h].state = "failed")
      => /\ ~Includes(st.availableSongs, handles[h].track)
         /\ Starts(handles[h].track) <= 1

\* ------------------------------------------------- narrowing the languages
\* A visitor with both languages selected plays, and deselects languages.
BothLs ==
  { [TypicalLs EXCEPT !.saved = TRUE, !.selectedLanguages = <<"tr", "en">>] }

InitLang == InitWith(BothLs, FirstDraw(Run(MaxHandlesNav, MaxClicksLang, 0, 0)))

NextLang ==
  \/ Mount
  \/ LanguagesFetched
  \/ \E f \in fetches : SongsFetched(f)
  \/ Settled /\ TogglePlay
  \/ \E l \in Elems(ManifestLanguages) : Settled /\ ToggleLanguage(l)
  \/ \E h \in 1..Len(handles) : HowlLoaded(h)
  \/ \E h \in 1..Len(handles) : HowlPlayEvent(h)
  \/ \E h \in 1..Len(handles) : HowlEnded(h)
  \/ TimerPlayNext
  \/ TimerPreload
  \/ TimerDebounce

SpecLang == InitLang /\ [][NextLang]_vars

\* The catalog in state is the one of the selected languages: the answer to
\* the last selection has arrived.
CatalogNarrowed ==
  /\ fetches = {}
  /\ \A i \in 1..Len(st.songs) : Includes(st.selectedLanguages, LanguageOf(st.songs[i]))

\* C10: once the catalog of a narrowed selection is in place, a step that
\* starts a song starts one of a selected language, and starts none when the
\* catalog is empty.
C10_StartsOnlySelected ==
  [][(CatalogNarrowed /\ plays' # plays) =>
       /\ Len(st.songs) > 0
       /\ Includes(st.selectedLanguages, LanguageOf(plays'[Len(plays')]))]_vars

\* --------------------------------------------------- a one-track catalog
\* A visitor whose only selected language has a single track, who presses
\* play and skip once everything in flight has settled; tracks end whenever
\* they end, and timers, Howl events and answers come in any order.
SoloLs ==
  { [TypicalLs EXCEPT !.saved = TRUE, !.selectedLanguages = <<"tr">>] }

MaxHandlesSolo == 4

InitSolo == InitWith(SoloLs, Run(MaxHandlesSolo, MaxUserActions, 0, 0))

NextSolo ==
  \/ Mount
  \/ LanguagesFetched
  \/ \E f \in fetches : SongsFetched(f)
  \/ Settled /\ TogglePlay
  \/ Settled /\ SkipSong
  \/ \E h \in 1..Len(handles) : HowlLoaded(h)
  \/ \E h \in 1..Len(handles) : HowlPlayEvent(h)
  \/ \E h \in 1..Len(handles) : HowlEnded(h)
  \/ TimerPlayNext
  \/ TimerPreload
  \/ TimerDebounce

SpecSolo == InitSolo /\ [][NextSolo]_vars

\* Playback has halted on its own: the player shows a track as playing, yet
\* no Howl is playing or about to, and nothing is in flight that would start
\* one (no timer, no loading Howl, no pending event, no request).
Halted ==
  /\ mounted
  /\ Settled
  /\ st.isPlaying
  /\ \A h \in 1..Len(handles) : ~handles[h].playing /\ ~handles[h].playQueued

\* C11: with a non-empty catalog and no load failure, the end of the current
\* track always leads to the start of a next one: playback is never left
\* halted on its own.
C11_NeverHaltsOnItsOwn == (Len(st.songs) > 0 /\ plays # <<>>) => ~Halted

\* ------------------------------------------------- every load fails
\* A listener presses play once on a catalog none of whose tracks the server
\* can deliver: every Howl, started or preloaded, ends in onloaderror; every
\* random draw takes the first candidate.
MaxHandlesRetry == 6

MaxLoadErrorsAll == 6

InitRetry ==
  InitWith(ReturningLs, FirstDraw(Run(MaxHandlesRetry, 1, MaxLoadErrorsAll, 0)))

NextRetry ==
  \/ Mount
  \/ LanguagesFetched
  \/ \E f \in fetches : SongsFetched(f)
  \/ TogglePlay
  \/ \E h \in 1..Len(handles) : HowlLoadError(h)
  \/ TimerPlayNext
  \/ TimerPreload
  \/ TimerDebounce

SpecRetry == InitRetry /\ [][NextRetry]_vars

\* C12: when every track fails to load, the retries stop after a bounded
\* number of advances: no more tracks are started than two rounds over the
\* catalog (each track once, and once more after an exhaustion reset).
C12_RetryAdvancesBounded ==
  Len(st.songs) > 0 => Len(plays) <= 2 * Len(st.songs)

\* ------------------------------------------------------- impatient clicks
\* A listener who presses play/pause, skip and previous at any moment, also
\* while the buttons are disabled; every random draw takes the first
\* candidate.
MaxClicksCooldown == 3

InitCooldown ==
  InitWith(ReturningLs, FirstDraw(Run(MaxHandlesNav, MaxClicksCooldown, 0, 0)))

SpecCooldown == InitCooldown /\ [][NextNav]_vars

\* C13: a click on play/pause, skip or previous while the buttons are
\* disabled changes nothing (no state, no Howl, no timer, no request, no
\* storage); a click while they are enabled disables them and starts the
\* 500ms timer; the buttons are disabled exactly while that timer is pending,
\* and the step in which it fires enables them again.
C13_CooldownIgnoresClicks ==
  [][/\ st.isButtonDisabled <=> Pending("debounce") # {}
     /\ clicks' # clicks =>
          IF st.isButtonDisabled
          THEN UNCHANGED <<st, ls, handles, timers, fetches, plays>>
          ELSE /\ st'.isButtonDisabled
               /\ \E t \in timers' : t.kind = "debounce"
     /\ (clicks' = clicks /\ st.isButtonDisabled
           /\ ~ \E t \in timers' : t.kind = "debounce")
          => ~st'.isButtonDisabled]_vars

\* A click was accepted, a second one was ignored during the cooldown, and
\* after the timer fired a third one was accepted.
C13_Witness ==
  /\ clicks = 3
  /\ ignored = 1
  /\ st.isButtonDisabled
  /\ Len(plays) >= 2

\* ------------------------------------------------------ close and reopen
\* A first-time visitor selects languages, sets the volume and plays, acting
\* once everything in flight has settled, then closes the page at any moment
\* and opens it again; every random draw takes the first candidate.
MaxHandlesReload == 2

MaxClicksReload == 3

InitReload ==
  InitWith({TypicalLs}, FirstDraw(Run(MaxHandlesReload, MaxClicksReload, 0, 0)))

NextReload ==
  \/ Mount
  \/ LanguagesFetched
  \/ \E f \in fetches : SongsFetched(f)
  \/ \E l \in Elems(ManifestLanguages) : Settled /\ ToggleLanguage(l)
  \/ \E v \in Volumes : Settled /\ SetVolume(v)
  \/ Settled /\ TogglePlay
  \/ \E h \in 1..Len(handles) : HowlLoaded(h)
  \/ \E h \in 1..Len(handles) : HowlPlayEvent(h)
  \/ TimerPreload
  \/ TimerDebounce
  \/ TimerRestoreAudio
  \/ TimerRestoreDone
  \/ Reload

SpecReload == InitReload /\ [][NextReload]_vars

\* C14: the selected languages, the volume and the played songs in state once
\* a reopened page has run its mount effects are those in state when the page
\* was closed.
C14_ReloadKeepsPreferences ==
  [][(run.reloads > 0 /\ ~mounted /\ mounted') =>
       /\ st'.selectedLanguages = run.closed.selectedLanguages
       /\ st'.volume = run.closed.volume
       /\ st'.playedSongs = run.closed.playedSongs]_vars

\* ======================================================== the API routes
\* src/src/utils/audioManager.ts and the two route handlers.  A string the
\* code inspects is the sequence of its tokens (words, or characters of a
\* title); a call that can throw yields a result: its value, or the message
\* of the Error thrown.
Return(v) == [ok |-> TRUE, value |-> v, message |-> <<>>]

Throw(message) == [ok |-> FALSE, value |-> <<>>, message |-> message]

\* String.prototype.includes, on tokens.
StringIncludes(str, part) ==
  \E i \in 0..(Len(str) - Len(part)) : SubSeq(str, i + 1, i + Len(part)) = part

MsgNotConfigured ==
  <<"Music", "server", "URL", "is", "not", "configured", ".", "Please", "set",
    "NEXT_PUBLIC_AUDIO_BASE_URL">>

MsgCannotConnect ==
  <<"Cannot", "connect", "to", "music", "server", ".", "Please", "check">>

MsgServerError == <<"Music", "server", "error", "(", "status", ")", ".">>

MsgInvalidData == <<"Music", "server", "returned", "invalid", "data", ".">>

MsgUnexpectedFormat ==
  <<"Music", "server", "returned", "unexpected", "format", ".">>

MsgNoLanguages ==
  <<"No", "music", "languages", "are", "currently", "available", ".">>

MsgNoSongs ==
  <<"No", "songs", "available", "for", "the", "selected", "languages", ".">>

\* The SyntaxError of request.json() on a body that is not JSON.
MsgSyntaxError == <<"Unexpected", "token">>

\* fetchMusicManifest against a music server: whether the base URL is set,
\* the HEAD probe and the GET succeed, the body parses, it has a languages
\* object, and that object (language -> entry).
fetchMusicManifest(server) ==
  IF ~server.baseUrl THEN Throw(MsgNotConfigured)
  ELSE IF ~server.headOk THEN Throw(MsgCannotConnect)
  ELSE IF ~server.getOk THEN Throw(MsgServerError)
  ELSE IF ~server.parses THEN Throw(MsgInvalidData)
  ELSE IF ~server.hasLanguages THEN Throw(MsgUnexpectedFormat)
  ELSE IF DOMAIN server.languages = {} THEN Throw(MsgNoLanguages)
  ELSE Return(server.languages)

\* Object.keys(manifest.languages), as a set.
getAvailableLanguages(server) ==
  LET manifest == fetchMusicManifest(server)
  IN IF manifest.ok THEN Return(DOMAIN manifest.value) ELSE manifest

RECURSIVE trim(_)
\* String.prototype.trim on the characters of a title.
trim(text) ==
  IF text = <<>> THEN <<>>
  ELSE IF Head(text) = " " THEN trim(Tail(text))
  ELSE IF text[Len(text)] = " " THEN trim(SubSeq(text, 1, Len(text) - 1))
  ELSE text

RECURSIVE languageSongs(_, _)
\* songTitles.filter(string with a non-blank trim).map(title => Song); the id
\* is `${language}-${title}`.
languageSongs(language, songTitles) ==
  IF songTitles = <<>> THEN <<>>
  ELSE LET title == Head(songTitles)
           rest == languageSongs(language, Tail(songTitles))
       IN IF title.isString /\ Len(trim(title.text)) > 0
          THEN <<[id |-> <<language, "-">> \o title.text, title |-> title.text,
                  language |-> language]>> \o rest
          ELSE rest

RECURSIVE allSongs(_, _)
\* The loop over the requested languages: a language the manifest lacks, or
\* whose entry is not an array, is skipped.
allSongs(manifest, languages) ==
  IF languages = <<>> THEN <<>>
  ELSE LET language == Head(languages)
           rest == allSongs(manifest, Tail(languages))
       IN IF language \notin DOMAIN manifest \/ ~manifest[language].isArray
          THEN rest
          ELSE languageSongs(language, manifest[language].titles) \o rest

\* getSongsByLanguages with the allSongs.length === 0 test left out.
getSongsByLanguagesFrom_NoEmptyTest(server, languages) ==
  LET manifest == fetchMusicManifest(server)
  IN IF Len(languages) = 0 THEN Return(<<>>)
     ELSE IF ~manifest.ok THEN manifest
     ELSE Return(allSongs(manifest.value, languages))

\* getSongsByLanguages against a music server.
getSongsByLanguagesFrom(server, languages) ==
  LET manifest == fetchMusicManifest(server)
  IN IF Len(languages) = 0 THEN Return(<<>>)
     ELSE IF ~manifest.ok THEN manifest
     ELSE IF Len(allSongs(manifest.value, languages)) = 0 THEN Throw(MsgNoSongs)
     ELSE Return(allSongs(manifest.value, languages))

\* The catch blocks tested in another order: 'Music server error' first.
statusCode_ServerErrorFirst(message, route) ==
  IF StringIncludes(message, <<"Music", "server">>) THEN 502
  ELSE IF StringIncludes(message, <<"Cannot", "connect", "to", "music", "server">>)
  THEN 503
  ELSE IF route = "songs" /\ StringIncludes(message, <<"No", "songs", "available">>)
  THEN 404
  ELSE 500

\* statusCode of the catch block of a route; only POST /api/songs tests for
\* 'No songs available'.
statusCode(message, route) ==
  IF StringIncludes(message, <<"Music", "server", "URL", "is", "not", "configured">>)
  THEN 503
  ELSE IF StringIncludes(message, <<"Cannot", "connect", "to", "music", "server">>)
  THEN 503
  ELSE IF StringIncludes(message, <<"Music", "server", "error">>) THEN 502
  ELSE IF route = "songs" /\ StringIncludes(message, <<"No", "songs", "available">>)
  THEN 404
  ELSE 500

\* NextResponse.json(...) of a route for the result of its call.
Respond(result, route) ==
  IF result.ok THEN [status |-> 200, success |-> TRUE, data |-> result.value]
  ELSE [status |-> statusCode(result.message, route), success |-> FALSE,
        data |-> <<>>]

\* GET /api/languages
GET(server) == Respond(getAvailableLanguages(server), "languages")

\* What POST /api/songs hands to Respond for a request body: whether it is
\* JSON, whether its languages field is an array, and that array.
PostResult(server, body) ==
  IF ~body.parses THEN Throw(MsgSyntaxError)
  ELSE IF Len(body.languages) = 0 THEN Return(<<>>)
  ELSE getSongsByLanguagesFrom(server, body.languages)

\* POST /api/songs
POST(server, body) ==
  IF body.parses /\ ~body.isArray
  THEN [status |-> 400, success |-> FALSE, data |-> <<>>]
  ELSE Respond(PostResult(server, body), "songs")

\* ------------------------------------------------ requests and servers
\* Titles of a manifest entry: two songs, a padded one, a blank string and a
\* value that is not a string.
StringTitle(text) == [isString |-> TRUE, text |-> text]

NotAString == [isString |-> FALSE, text |-> <<>>]

List(titles) == [isArray |-> TRUE, titles |-> titles]

NotAList == [isArray |-> FALSE, titles |-> <<>>]

\* manifest.languages objects: well formed, with a repeated title and an
\* entry that is no list, with only invalid titles, with a language missing.
Manifests ==
  { ("en" :> List(<<StringTitle(<<"a">>), StringTitle(<<"b">>)>>)
       @@ "tr" :> List(<<StringTitle(<<"c">>)>>)),
    ("en" :> List(<<StringTitle(<<"a">>), StringTitle(<<"a">>)>>)
       @@ "tr" :> NotAList),
    ("en" :> List(<<StringTitle(<<" ">>), NotAString>>) @@ "tr" :> List(<<>>)),
    ("en" :> List(<<StringTitle(<<" ", "a">>), StringTitle(<<>>)>>)),
    ("tr" :> NotAList) }

GoodServer(languages) ==
  [baseUrl |-> TRUE, headOk |-> TRUE, getOk |-> TRUE, parses |-> TRUE,
   hasLanguages |-> TRUE, languages |-> languages]

NoLanguages == [l \in {} |-> NotAList]

\* The music servers: a good one per manifest, and one per way
\* fetchMusicManifest fails.
Servers ==
  {GoodServer(m) : m \in Manifests}
    \cup {[GoodServer(NoLanguages) EXCEPT ![f] = FALSE] :
            f \in {"baseUrl", "headOk", "getOk", "parses", "hasLanguages"}}
    \cup {GoodServer(NoLanguages)}

MaxRequested == 3

RequestedIds == {"en", "tr", "xx"}

\* The languages arrays of a request: up to MaxRequested ids, repeats allowed.
Requests ==
  UNION {[1..n -> RequestedIds] : n \in 0..MaxRequested}

\* The bodies of POST /api/songs: not JSON, a languages field that is no
\* array, and the arrays.
Bodies ==
  {[parses |-> FALSE, isArray |-> FALSE, languages |-> <<>>],
   [parses |-> TRUE, isArray |-> FALSE, languages |-> <<>>]}
    \cup {[parses |-> TRUE, isArray |-> TRUE, languages |-> l] : l \in Requests}

EmptyBody == [parses |-> TRUE, isArray |-> TRUE, languages |-> <<>>]

PlayerUnchanged ==
  UNCHANGED <<st, ls, handles, timers, fetches, mounted, langFetch, toast, run,
              errors, fetchErrors, clicks, ignored, plays>>

GetLanguages(server) ==
  /\ api' = [route |-> "languages", server |-> server, body |-> EmptyBody,
             result |-> getAvailableLanguages(server), response |-> GET(server)]
  /\ PlayerUnchanged

PostSongs(server, body) ==
  /\ api' = [route |-> "songs", server |-> server, body |-> body,
             result |-> PostResult(server, body), response |-> POST(server, body)]
  /\ PlayerUnchanged

InitApi == InitWith({TypicalLs}, Run(0, 0, 0, 0))

NextApi ==
  \/ \E server \in Servers : GetLanguages(server)
  \/ \E server \in Servers, body \in Bodies : PostSongs(server, body)

SpecApi == InitApi /\ [][NextApi]_vars

\* A request has been answered.
Answered == api.route # "none"

OutcomeStatus ==
  LET server == api.server
      manifestFetched ==
        /\ server.baseUrl /\ server.headOk /\ server.getOk /\ server.parses
        /\ server.hasLanguages /\ DOMAIN server.languages # {}
      serverStatus ==
        IF ~server.baseUrl \/ ~server.headOk THEN 503
        ELSE IF ~server.getOk THEN 502
        ELSE 500
      noSongs ==
        \A i \in 1..Len(api.body.languages) :
          LET l == api.body.languages[i]
          IN \/ l \notin DOMAIN server.languages
             \/ ~server.languages[l].isArray
             \/ \A j \in 1..Len(server.languages[l].titles) :
                  LET t == server.languages[l].titles[j]
                  IN ~t.isString \/ \A k \in 1..Len(t.text) : t.text[k] = " "
  IN IF api.route = "languages"
     THEN IF manifestFetched THEN 200 ELSE serverStatus
     ELSE IF ~api.body.parses THEN 500
     ELSE IF ~api.body.isArray THEN 400
     ELSE IF Len(api.body.languages) = 0 THEN 200
     ELSE IF ~manifestFetched THEN serverStatus
     ELSE IF noSongs THEN 404
     ELSE 200

SongsLookedUp ==
  /\ api.route = "songs"
  /\ api.body.parses /\ api.body.isArray /\ Len(api.body.languages) > 0
  /\ fetchMusicManifest(api.server).ok

\* The requested languages the manifest lists with an array.
ListedLanguages ==
  { l \in Elems(api.body.languages) :
      l \in DOMAIN api.server.languages /\ api.server.languages[l].isArray }

\* The (language, title) pairs of the valid titles of these languages: the
\* strings with a character that is not a blank.
ValidTitles ==
  UNION { { <<l, t.text>> :
              t \in { u \in Elems(api.server.languages[l].titles) :
                        u.isString /\ \E k \in 1..Len(u.text) : u.text[k] # " " } } :
          l \in ListedLanguages }

C17_IdsPairwiseDistinct ==
  (SongsLookedUp /\ api.result.ok) =>
    \A i, j \in 1..Len(api.result.value) :
      i # j => api.result.value[i].id # api.result.value[j].id

\* ------------------------------------------------- the playlist tracker
\* C18: in every reachable state no song is both in availableSongs and in
\* playedSongs.
C18_AvailableDisjointFromPlayed ==
  \A i \in 1..Len(st.availableSongs) :
    ~Includes(st.playedSongs, st.availableSongs[i])

\* The current song is playing: the current Howl is of that song, has
\* started and has emitted its 'play' event (not the moment between the
\* start of a Howl and the event that publishes its song).
NowPlaying ==
  /\ st.currentSong # None
  /\ st.sound # NoHandle
  /\ handles[st.sound].track = st.currentSong
  /\ handles[st.sound].playing
  /\ ~handles[st.sound].playEvent

\* C19: in every reachable state the history of previous songs does not
\* contain the song that is playing.
C19_HistoryLacksCurrent ==
  NowPlaying => ~Includes(st.previousSongs, st.currentSong)

\* C20: in every reachable state availableSongs does not contain the song
\* that is playing and contains no song twice.
C20_AvailableLacksCurrentNoRepeat ==
  /\ NowPlaying => ~Includes(st.availableSongs, st.currentSong)
  /\ \A i, j \in 1..Len(st.availableSongs) :
       i # j => st.availableSongs[i] # st.availableSongs[j]

\* ------------------------------------------------ changing the selection
\* A visitor with both languages selected who toggles languages at any
\* moment, also while earlier /api/songs requests are still in flight; the
\* answers arrive in any order.  Nothing is played.
MaxClicksToggle == 4

InitToggle == InitWith(BothLs, Run(0, MaxClicksToggle, 0, 0))

NextToggle ==
  \/ Mount
  \/ LanguagesFetched
  \/ \E f \in fetches : SongsFetched(f)
  \/ \E l \in Elems(ManifestLanguages) : ToggleLanguage(l)

SpecToggle == InitToggle /\ [][NextToggle]_vars

\* C21: once every /api/songs request in flight has been answered, every
\* song of the catalog has a language of the current selection.
C21_CatalogWithinSelection ==
  (mounted /\ fetches = {}) =>
    \A i \in 1..Len(st.songs) :
      Includes(st.selectedLanguages, LanguageOf(st.songs[i]))

\* ---------------------------------------------------------- live handles
\* The Howls that hold an audio resource: created, and neither unloaded nor
\* failed.
Live == {h \in 1..Len(handles) : handles[h].state \in {"loading", "loaded"}}

\* C22: in every reachable state at most two Howls are live, the current
\* one and at most one preloaded next.
C22_AtMostTwoLive == Cardinality(Live) <= 2

\* The Howls a state cell of render s refers to: the current sound and the
\* preloaded next sound.
Referenced(s) == {s.sound, s.nextSound} \ {NoHandle}

\* C23: a step after which neither sound nor nextSound refers any more to a
\* Howl they referred to leaves that Howl unloaded (stopped and unloaded).
C23_ReleasedBeforeDropped ==
  [][\A h \in Referenced(st) \ Referenced(st') :
       h \in 1..Len(handles') => handles'[h].state = "unloaded"]_vars

\* ------------------------------------------------- a late delayed advance
\* The delayed advances set by the onend of a Howl that is no longer the
\* current sound: a skip or a previous has put another Howl in its place.
SupersededAdvances ==
  {t \in Pending("playNext") : t.h # NoHandle /\ st.sound # t.h}

\* C24: the delayed advance of an ended Howl that a skip or a previous has
\* superseded has no effect when it fires: it starts no track and leaves the
\* current sound and the current song alone.
C24_SupersededAdvanceHasNoEffect ==
  [][\A t \in SupersededAdvances :
       t \notin timers' =>
         /\ plays' = plays
         /\ st'.sound = st.sound
         /\ st'.currentSong = st.currentSong]_vars

\* ------------------------------------------------ clicks during a load
\* The current sound is a Howl that is still loading: created, and neither
\* loaded nor failed.
CurrentLoading ==
  st.sound # NoHandle /\ handles[st.sound].state = "loading"

\* C25: a click on play/pause, skip or previous while the current sound is
\* still loading is ignored: it creates no Howl, releases none, starts no
\* track and leaves the current sound in place, also once the 500ms cooldown
\* of the click that started the load has run out.
C25_ClickWhileLoadingIgnored ==
  [][(CurrentLoading /\ clicks' # clicks) =>
       /\ Len(handles') = Len(handles)
       /\ \A h \in 1..Len(handles) : handles'[h].state = handles[h].state
       /\ st'.sound = st.sound
       /\ plays' = plays]_vars

\* --------------------------------------------------- an advance that picks
\* C26: an advance ends in a 'no songs' notice, with no track selected, only
\* when the catalog is empty.
C26_NoSongsOnlyWhenEmpty ==
  toast \in {"noSongs", "noMoreSongs"} => Len(st.songs) = 0

\* ------------------------------------------------- a three-track catalog
\* A visitor with both languages selected (three tracks), whose saved
\* playedSongs is empty or holds the id of a track the server no longer
\* lists, who presses play and skip once everything in flight has settled;
\* every random draw takes the first candidate.
MaxHandlesTrio == 6

TrioLs ==
  { [TypicalLs EXCEPT !.saved = TRUE, !.selectedLanguages = <<"tr", "en">>,
                      !.playedSongs = p] : p \in {<<>>, <<"x">>} }

InitTrio == InitWith(TrioLs, FirstDraw(Run(MaxHandlesTrio, MaxUserActions, 0, 0)))

SpecTrio == InitTrio /\ [][NextLong]_vars

\* s is a prefix of t
IsPrefix(s, t) == Len(s) <= Len(t) /\ SubSeq(t, 1, Len(s)) = s

\* The songs of the catalog, other than the current one, that are not in
\* playedSongs.
UnplayedOthers ==
  ExceptCurrent(NotIn(st.songs, st.playedSongs), st.currentSong)

\* C27: a step that resets playedSongs (takes entries out of it rather than
\* appending to it) happens only when no song of the catalog other than the
\* current one is unplayed.
C27_ResetOnlyAtExhaustion ==
  [][(mounted /\ ~IsPrefix(st.playedSongs, st'.playedSongs)) =>
       Len(UnplayedOthers) = 0]_vars

\* ------------------------------------------------------- play and pause
\* C28: an accepted togglePlay with no current sound, no current song and a
\* non-empty catalog starts a track (one more song started, its Howl the
\* current sound, play requested); with a current sound that is playing it
\* pauses that Howl and sets isPlaying to false; with a current sound that
\* is loaded and not playing it resumes that same Howl; pausing and resuming
\* create no Howl, start no track and change neither the current sound nor
\* the current song.
C28_TogglePlayStartsPausesOrResumes ==
  [][(TogglePlay /\ ~st.isButtonDisabled) =>
       /\ (st.sound = NoHandle /\ st.currentSong = None /\ Len(st.songs) > 0) =>
            /\ Len(plays') = Len(plays) + 1
            /\ st'.sound # NoHandle
            /\ handles'[st'.sound].track = plays'[Len(plays')]
            /\ handles'[st'.sound].playing \/ handles'[st'.sound].playQueued
       /\ (st.sound # NoHandle /\ handles[st.sound].playing) =>
            /\ ~handles'[st.sound].playing
            /\ handles'[st.sound].state = handles[st.sound].state
            /\ ~st'.isPlaying
            /\ Len(handles') = Len(handles)
            /\ st'.sound = st.sound
            /\ st'.currentSong = st.currentSong
            /\ plays' = plays
       /\ (st.sound # NoHandle /\ handles[st.sound].state = "loaded"
             /\ ~handles[st.sound].playing) =>
            /\ handles'[st.sound].playing
            /\ Len(handles') = Len(handles)
            /\ st'.sound = st.sound
            /\ st'.currentSong = st.currentSong
            /\ plays' = plays]_vars

\* A track was started, has played, was paused and has just been resumed in
\* the same Howl: it is playing again and its 'play' event is still to come.
C28_Witness ==
  /\ clicks = 3
  /\ ignored = 0
  /\ st.sound # NoHandle
  /\ handles[st.sound].playing
  /\ handles[st.sound].playEvent
  /\ st.currentSong = handles[st.sound].track
  /\ ~st.isPlaying

\* ------------------------------------------------- previous, empty history
\* C29: an accepted previousSong with an empty history raises the 'no
\* previous songs' notice and leaves the current sound, every Howl, the
\* current song, isPlaying, playedSongs, availableSongs, the history and the
\* preloaded next sound unchanged; it starts no track and sends no request.
C29_PreviousOnEmptyOnlyNotifies ==
  [][(PreviousSong /\ ~st.isButtonDisabled /\ Len(st.previousSongs) = 0) =>
       /\ toast' = "noPrevious"
       /\ st'.sound = st.sound
       /\ st'.nextSound = st.nextSound
       /\ handles' = handles
       /\ st'.currentSong = st.currentSong
       /\ st'.isPlaying = st.isPlaying
       /\ st'.playedSongs = st.playedSongs
       /\ st'.availableSongs = st.availableSongs
       /\ st'.previousSongs = st.previousSongs
       /\ plays' = plays
       /\ fetches' = fetches]_vars

\* previousSong has just found the history empty while a track is playing
\* and a next one is preloaded: all of it is still in place.
C29_Witness ==
  /\ toast = "noPrevious"
  /\ st.previousSongs = <<>>
  /\ st.isPlaying
  /\ st.sound # NoHandle
  /\ handles[st.sound].playing
  /\ st.currentSong = handles[st.sound].track
  /\ st.nextSound # NoHandle

\* ------------------------------------------------ advancing to the preload
\* C30: a step that starts a track by playNextSong makes the preloaded next
\* sound, if there is one, the current sound and takes it out of nextSound;
\* when there is none, the current sound is a Howl created in that step.
C30_AdvanceUsesPreloaded ==
  [][Len(plays') = Len(plays) + 1 =>
       IF st.nextSound # NoHandle
       THEN /\ st'.sound = st.nextSound
            /\ st'.nextSound # st.nextSound
       ELSE st'.sound = Len(handles) + 1]_vars

\* ------------------------------------------------- a preload that fails
PreloadKinds == {"preload", "preloadU"}

\* C31: the load error of a preloading Howl raises no notice, leaves
\* nextSound referring to no Howl that existed before the step (the slot is
\* cleared; a preload effect of the same commit may fill it with a new Howl),
\* leaves the timer of a new preload pending, and changes neither the
\* current song, the current sound, its Howl nor isPlaying.
C31_PreloadFailureIsSilent ==
  [][\A h \in 1..Len(handles) :
       (handles[h].kind \in PreloadKinds /\ HowlLoadError(h)) =>
         /\ toast' = None
         /\ st'.nextSound \notin 1..Len(handles)
         /\ \E t \in timers' : t.kind = handles[h].kind /\ t.env = handles[h].env
         /\ st'.currentSong = st.currentSong
         /\ st'.sound = st.sound
         /\ st'.isPlaying = st.isPlaying
         /\ st.sound # NoHandle => handles'[st.sound] = handles[st.sound]]_vars

\* The Howl a preload effect created has failed to load while a track is
\* playing: the track plays on and the timer of a new attempt is pending.
C31_Witness ==
  /\ \E h \in 1..Len(handles) :
       handles[h].kind = "preloadU" /\ handles[h].state = "failed"
  /\ Pending("preloadU") # {}
  /\ st.isPlaying
  /\ st.sound # NoHandle
  /\ handles[st.sound].playing
  /\ st.currentSong = handles[st.sound].track

\* ------------------------------------------- a restoration that may fail
\* The page is opened on a snapshot whose song the server still lists; the
\* restored Howl, or a preloading one, may fail to load, and the listener
\* presses play/pause at any moment; every random draw takes the first
\* candidate.
MaxHandlesRestore == 3

MaxClicksRestore == 1

RestoreSnapshots ==
  { [ saved |-> TRUE, selectedLanguages |-> <<"en">>, playedSongs |-> <<"a">>,
      volume |-> VolumeToString(7), currentSong |-> "a", wasPlaying |-> p,
      audioPosition |-> pt[1], audioPositionTimestamp |-> pt[2] ] :
      p \in {"true", "false"}, pt \in {<<2, Now - 1>>} }

InitRestore ==
  InitWith(RestoreSnapshots,
           FirstDraw(Run(MaxHandlesRestore, MaxClicksRestore, MaxLoadErrors, 0)))

NextRestore ==
  \/ Mount
  \/ LanguagesFetched
  \/ \E f \in fetches : SongsFetched(f)
  \/ TogglePlay
  \/ \E h \in 1..Len(handles) : HowlLoaded(h)
  \/ \E h \in 1..Len(handles) : HowlLoadError(h)
  \/ \E h \in 1..Len(handles) : HowlPlayEvent(h)
  \/ TimerRestoreAudio
  \/ TimerRestorePlay
  \/ TimerRestoreDone
  \/ TimerPreload
  \/ TimerDebounce

SpecRestore == InitRestore /\ [][NextRestore]_vars

\* A restored Howl has failed to load.
RestoreFailed ==
  \E h \in 1..Len(handles) :
    handles[h].kind = "restore" /\ handles[h].state = "failed"

\* C32: the step in which the restored Howl fails to load leaves no current
\* song, no current sound, isPlaying false, the restore flag cleared and the
\* saved song removed from localStorage; and an accepted togglePlay after
\* that failure, with a non-empty catalog and nothing started yet, starts a
\* track.
C32_FailedRestoreLeavesIdle ==
  [][/\ \A h \in 1..Len(handles) :
          (handles[h].kind = "restore" /\ handles[h].state = "loading"
             /\ handles'[h].state = "failed") =>
            /\ st'.currentSong = None
            /\ st'.sound = NoHandle
            /\ ~st'.isPlaying
            /\ ~st'.shouldRestoreAudio
            /\ ls'.currentSong = None /\ ls'.audioPosition = 0
     /\ (RestoreFailed /\ clicks' # clicks /\ ~st.isButtonDisabled
           /\ Len(st.songs) > 0 /\ plays = <<>>) =>
          Len(plays') = 1]_vars

\* ------------------------------------------- impatience at a cold start
\* The page is opened on a snapshot saved while paused and no load fails;
\* the listener presses play/pause or skip once, at any moment, also before
\* the saved song has been restored.
MaxHandlesEager == 3

InitEager ==
  InitWith({s \in RestoreSnapshots : s.wasPlaying = "false"},
           FirstDraw(Run(MaxHandlesEager, MaxClicksRestore, 0, 0)))

NextEager ==
  \/ Mount
  \/ LanguagesFetched
  \/ \E f \in fetches : SongsFetched(f)
  \/ TogglePlay
  \/ SkipSong
  \/ \E h \in 1..Len(handles) : HowlLoaded(h)
  \/ \E h \in 1..Len(handles) : HowlPlayEvent(h)
  \/ TimerRestoreAudio
  \/ TimerRestorePlay
  \/ TimerRestoreDone
  \/ TimerPreload
  \/ TimerDebounce

SpecEager == InitEager /\ [][NextEager]_vars

\* A restoration is pending: the restore flag is set and restoreAudio has
\* not yet created the Howl of the saved song.
RestorationPending ==
  /\ st.shouldRestoreAudio
  /\ st.sound = NoHandle
  /\ \A h \in 1..Len(handles) : handles[h].kind # "restore"

\* C33: an accepted click on play/pause or skip while a restoration is
\* pending starts no track, creates no Howl and leaves the current sound and
\* the saved song as current song.
C33_NoStartWhileRestoring ==
  [][(RestorationPending /\ clicks' # clicks /\ ~st.isButtonDisabled) =>
       /\ plays' = plays
       /\ Len(handles') = Len(handles)
       /\ st'.sound = st.sound
       /\ st'.currentSong = st.currentSong]_vars

\* ------------------------------------------------ no language selected
\* C34: while no language is selected, no track is started, and once
\* everything in flight has settled no Howl is playing.
C34_EmptySelectionStopsMusic ==
  [][(mounted /\ st.selectedLanguages = <<>>) =>
       /\ (st'.selectedLanguages = <<>> => plays' = plays)
       /\ (Settled => \A h \in 1..Len(handles) : ~handles[h].playing)]_vars

\* ------------------------------------------------ positions in storage
\* A listener presses play and then skip; the position of the playing track
\* is saved now and then (5s interval, visibilitychange), and the page is
\* closed and opened again at any moment; every random draw takes the first
\* candidate.
MaxHandlesSave == 2
MaxClicksSave == 2

InitSave ==
  InitWith(ReturningLs, FirstDraw(Run(MaxHandlesSave, MaxClicksSave, 0, 0)))

NextSave ==
  \/ Mount
  \/ LanguagesFetched
  \/ \E f \in fetches : SongsFetched(f)
  \/ TogglePlay
  \/ SkipSong
  \/ \E h \in 1..Len(handles) : HowlLoaded(h)
  \/ \E h \in 1..Len(handles) : HowlPlayEvent(h)
  \/ TimerPlayNext
  \/ TimerPreload
  \/ TimerDebounce
  \/ TimerRestoreAudio
  \/ TimerRestoreDone
  \/ SavePosition
  \/ Reload

SpecSave == InitSave /\ [][NextSave]_vars

\* C35: the position in localStorage belongs to the song in localStorage:
\* whenever both are stored, the position was read from a Howl of that song.
C35_PositionFollowsSavedSong ==
  (ls.audioPosition > 0 /\ ls.currentSong # None /\ run.savedFrom # None) =>
    run.savedFrom = ls.currentSong

\* ------------------------------------------------ one restored Howl
\* C36: a cold start creates at most one Howl for the saved song.
C36_OneRestoredHowl ==
  Cardinality({h \in 1..Len(handles) : handles[h].kind = "restore"}) <= 1

\* ------------------------------------------------ restoration and outage
\* The cold start of the restoration scenario, where the catalog request
\* can fail once.
InitOutage ==
  InitWith(RestoreSnapshots,
           FirstDraw(Run(MaxHandlesRestore, MaxClicksRestore, 0, MaxFetchErrors)))

NextOutage ==
  \/ Mount
  \/ LanguagesFetched
  \/ \E f \in fetches : SongsFetched(f)
  \/ \E f \in fetches : SongsFetchError(f)
  \/ TogglePlay
  \/ \E h \in 1..Len(handles) : HowlLoaded(h)
  \/ \E h \in 1..Len(handles) : HowlPlayEvent(h)
  \/ TimerRestoreAudio
  \/ TimerRestorePlay
  \/ TimerRestoreDone
  \/ TimerPreload
  \/ TimerDebounce

SpecOutage == InitOutage /\ [][NextOutage]_vars

\* C37: the restore flag does not stay set: once the page is mounted and
\* no request, timer, load or play event is left that could clear it, it
\* is clear.
C37_RestoreFlagNotStuck ==
  (mounted /\ Settled) => ~st.shouldRestoreAudio

\* ------------------------------------------------ published play state
\* C38: once nothing is in flight, isPlaying is true exactly when one Howl
\* is playing, and currentSong is then the track of that Howl.
C38_IsPlayingMatchesHowls ==
  (mounted /\ Settled) =>
    LET playing == {h \in 1..Len(handles) : handles[h].playing}
    IN /\ st.isPlaying <=> Cardinality(playing) = 1
       /\ st.isPlaying => \A h \in playing : st.currentSong = handles[h].track

\* ------------------------------------------------ selection without repeats
\* C39: selectedLanguages holds no language twice.
C39_SelectionHasNoRepeat ==
  \A i, j \in 1..Len(st.selectedLanguages) :
    st.selectedLanguages[i] = st.selectedLanguages[j] => i = j

\* ------------------------------------------------ the preload slot
\* C40: the preload slot is not kept by a Howl that an advance cannot use:
\* an accepted skip that finds a Howl in nextSound either plays that Howl or
\* empties the slot, so afterwards nextSound no longer holds it.
C40_PreloadSlotFreedByAdvance ==
  [][(/\ SkipSong
      /\ ~st.isButtonDisabled /\ Len(st.songs) > 0
      /\ st.nextSound # NoHandle) =>
       st'.nextSound # st.nextSound]_vars

====
